---- MODULE Spec2Model ----
(***************************************************************************)
(* Datacenter topology generators (Code/Topologies): FatTree, Fabric,      *)
(* Jupiter (switch level) and Jupiter_bl (block level).  A topology object *)
(* is constructed from integer parameters (index allocation), and          *)
(* gen_graph builds a networkx DiGraph by running the wiring loops.  The   *)
(* model runs every loop of gen_graph one iteration per step, keeping the  *)
(* loop counters and round-robin cursors of the code as the local frame.   *)
(* init_capacities annotates the edges with the capacity function, and a   *)
(* second frame holds another gen_graph invocation on the same object.     *)
(***************************************************************************)
EXTENDS Integers, FiniteSets, Sequences, TLC

VARIABLES
    self,   \* the topology object: its attributes after __init__
    pc,     \* position in the program: constructor outcome / loop of gen_graph
    loc,    \* local variables of the running call: the arguments of __init__,
            \* then the loop counters and cursors of gen_graph
    G,      \* the networkx DiGraph under construction: nodes, directed edges
            \* and the 'capacity' attribute of the edges that carry one
    other   \* frame (pc, loc, G) of a second gen_graph invocation on the same
            \* object, suspended while the first one runs

vars == <<self, pc, loc, G, other>>

----------------------------------------------------------------------------
(* Bounds of the explored constructor arguments. *)

MaxPortCount == 6
NegPortCount == 2
MaxServerPods == 2
MaxEdgePods == 2
MaxPlanes == 3
MaxFabricPorts == 3
MaxSpineBlocks == 2
MaxAggBlocks == 2
SpineOver == 1
MaxParams == 4
MaxTwoPortCount == 4
MaxTwoAggBlocks == 1
PlaneMargin == 1

----------------------------------------------------------------------------
(* Python arithmetic. *)

Abs(x) == IF x < 0 THEN 0 - x ELSE x

\* int(a / b): true division followed by truncation toward zero (b # 0).
\* The quotients of the model are far below 2^53, where a / b is exact enough
\* for the truncation to equal the integer quotient.
IntDiv(a, b) ==
    IF (a >= 0) = (b > 0) THEN Abs(a) \div Abs(b) ELSE 0 - (Abs(a) \div Abs(b))

\* a % b of Python: the result has the sign of b (b # 0).
PyMod(a, b) ==
    IF b > 0 THEN a % b ELSE 0 - ((0 - a) % (0 - b))

Min(a, b) == IF a < b THEN a ELSE b

----------------------------------------------------------------------------
(* Python range(start, stop) objects. *)

Range(a, b) == [start |-> a, stop |-> b]

RLen(r) == IF r.stop > r.start THEN r.stop - r.start ELSE 0

\* r[k] for 0 <= k < len(r)
RAt(r, k) == r.start + k

\* r[-1]; raises IndexError on an empty range
RLast(r) == r.stop - 1

REmpty(r) == RLen(r) = 0

\* the identifiers a range holds
RSet(r) == r.start .. (r.stop - 1)

\* mutant: the next layer starts on the previous layer's last index
LayerAfterOverlap(last_idx, count) == Range(last_idx, last_idx + count)

\* The range of the next layer, as the constructors of FatTree, Jupiter and
\* Jupiter_bl lay it out: count identifiers from the previous layer's last
\* index + 1 on.
LayerAfter(last_idx, count) == Range(last_idx + 1, last_idx + 1 + count)

----------------------------------------------------------------------------
(* networkx.DiGraph *)

EmptyGraph == [nodes |-> {}, edges |-> {}, capacity |-> <<>>]

\* G.add_edge(u, v): adds the directed edge, and both endpoints as nodes when
\* they are not in the graph yet; an edge that exists already is kept once.
AddEdge(g, u, v) ==
    [g EXCEPT !.nodes = @ \cup {u, v}, !.edges = @ \cup {<<u, v>>}]

\* mutant: only the forward direction is added
AddLinkOneWay(g, v1, v2) == AddEdge(g, v1, v2)

\* The two add_edge calls every wiring loop makes for one link.
AddLink(g, v1, v2) == AddEdge(AddEdge(g, v1, v2), v2, v1)

RECURSIVE SumSeq(_)
SumSeq(s) == IF s = <<>> THEN 0 ELSE Head(s) + SumSeq(Tail(s))

\* util.gen_nodes(*switches): nodes 1 .. sum(switches), no edges.
gen_nodes(switches) == [EmptyGraph EXCEPT !.nodes = 1 .. SumSeq(switches)]

----------------------------------------------------------------------------
(* Topology (base class): the capacity function *)

\* The capacity_function argument of the constructors: None, or a callable,
\* of which the code inspects the number of parameters before it calls it.
None == [name |-> "None", nr_of_params |-> 0]

CapacityFunctions ==
    {None} \cup {[name |-> "cap", nr_of_params |-> n] : n \in 0 .. MaxParams}

\* Topology.__init__: the check of the capacity function's signature
ArityRejected(capacity_function) ==
    /\ capacity_function # None
    /\ \/ capacity_function.nr_of_params < 2
       \/ capacity_function.nr_of_params > 3

\* The callables passed as capacity functions: cap(source_id, dest_id), which
\* tells the two directions of a link apart, and cap(source_id, dest_id,
\* topology_object), which reads the layer ranges of the topology.
Cap2(u, v) == 1000 * u + v

Cap3(u, v, topo) ==
    IF u \in RSet(topo.indices[1]) \/ v \in RSet(topo.indices[1])
    THEN 10 + (u - v)
    ELSE 40 + (u - v)

----------------------------------------------------------------------------
NoObject == [kind |-> "none"]

\* The frame of a gen_graph invocation that has not been called yet.
NotCalled == [pc |-> "constructed", loc |-> [i |-> 0], G |-> EmptyGraph]

Init ==
    /\ self = NoObject
    /\ pc = "start"
    /\ loc = [i |-> 0]
    /\ G = EmptyGraph
    /\ other = NotCalled

----------------------------------------------------------------------------
(* FatTree *)

PortCounts == (0 - NegPortCount) .. MaxPortCount

\* FatTree.__init__(port_count, capacity_function)
FatTreeInit(port_count, capacity_function) ==
    /\ pc = "start"
    /\ other' = other
    /\ loc' = [class |-> "FatTree", port_count |-> port_count,
               capacity_function |-> capacity_function]
    /\ G' = G
    /\ IF PyMod(port_count, 2) # 0
       THEN /\ pc' = "ValueError"
            /\ self' = self
       ELSE LET pods == port_count
                half == IntDiv(port_count, 2)
                tor_switches == pods * half
                aggregation_switches == pods * half
                core_switches == half * half
                tor_idx_range == Range(1, tor_switches + 1)
                last_tor_idx == RLast(tor_idx_range)
                aggregation_idx_range == LayerAfter(last_tor_idx, aggregation_switches)
                last_agg_idx == RLast(aggregation_idx_range)
                core_idx_range == LayerAfter(last_agg_idx, core_switches)
            IN  IF REmpty(tor_idx_range) \/ REmpty(aggregation_idx_range)
                THEN /\ pc' = "IndexError"
                     /\ self' = self
                ELSE IF ArityRejected(capacity_function)
                THEN /\ pc' = "ValueError"
                     /\ self' = self
                ELSE /\ pc' = "constructed"
                     /\ self' = [kind |-> "FatTree",
                                 descriptor |-> "FatTree_" \o ToString(port_count),
                                 capacity_function |-> capacity_function,
                                 port_count |-> port_count,
                                 tor_switches |-> tor_switches,
                                 aggregation_switches |-> aggregation_switches,
                                 core_switches |-> core_switches,
                                 indices |-> <<tor_idx_range, aggregation_idx_range,
                                               core_idx_range>>]

\* gen_graph: gen_nodes and the start of the pod wiring loop
FatTreeGenNodes ==
    /\ pc = "constructed"
    /\ other' = other
    /\ self.kind = "FatTree"
    /\ G' = gen_nodes(<<self.tor_switches, self.aggregation_switches,
                        self.core_switches>>)
    /\ loc' = [i |-> 0, j |-> 0, pod_step |-> 0]
    /\ pc' = "ft_pod_i"
    /\ self' = self

\* head of "for i in range(self.tor_switches)": the pod index update
FatTreePodHead ==
    /\ pc = "ft_pod_i"
    /\ other' = other
    /\ self' = self
    /\ G' = G
    /\ IF loc.i < self.tor_switches
       THEN LET pods == self.port_count
                per_pod == IntDiv(self.tor_switches, pods)
                agg_per_pod == IntDiv(self.aggregation_switches, pods)
                new_pod == loc.i # 0 /\ PyMod(loc.i, per_pod) = 0
            IN  /\ loc' = [loc EXCEPT !.j = 0,
                               !.pod_step = IF new_pod THEN @ + agg_per_pod ELSE @]
                /\ pc' = "ft_pod_j"
       ELSE /\ loc' = [i |-> 0, j |-> 0, group_step |-> 0]
            /\ pc' = "ft_core_i"

\* mutant: the pod offset is ignored
FatTreePodPeerPod0(tor_switches, pod_step, j) == tor_switches + j + 1

\* v2 of the pod wiring loop
FatTreePodPeer(tor_switches, pod_step, j) == tor_switches + pod_step + j + 1

\* body of "for j in range(int(self.aggregation_switches / pods))"
FatTreePodLink ==
    /\ pc = "ft_pod_j"
    /\ other' = other
    /\ self' = self
    /\ LET agg_per_pod == IntDiv(self.aggregation_switches, self.port_count)
       IN  IF loc.j < agg_per_pod
           THEN /\ G' = AddLink(G, loc.i + 1,
                                FatTreePodPeer(self.tor_switches, loc.pod_step, loc.j))
                /\ loc' = [loc EXCEPT !.j = @ + 1]
                /\ pc' = pc
           ELSE /\ G' = G
                /\ loc' = [loc EXCEPT !.i = @ + 1]
                /\ pc' = "ft_pod_i"

\* head of "for i in range(self.aggregation_switches)": the group reset
FatTreeCoreHead ==
    /\ pc = "ft_core_i"
    /\ other' = other
    /\ self' = self
    /\ G' = G
    /\ IF loc.i < self.aggregation_switches
       THEN LET pods == self.port_count
                per_pod == IntDiv(self.aggregation_switches, pods)
                new_pod == loc.i # 0 /\ PyMod(loc.i, per_pod) = 0
            IN  /\ loc' = [loc EXCEPT !.j = 0,
                               !.group_step = IF new_pod THEN 0 ELSE @]
                /\ pc' = "ft_core_j"
       ELSE /\ loc' = loc
            /\ pc' = "capacities"

\* mutant: strided core wiring, one core switch out of every group
FatTreeCorePeerStrided(aggregation_switches, group_step, j) ==
    2 * aggregation_switches + IntDiv(group_step, IntDiv(self.port_count, 2))
        + j * IntDiv(self.port_count, 2) + 1

\* mutant: the core group of the switch is ignored
FatTreeCorePeerGroup0(aggregation_switches, group_step, j) ==
    2 * aggregation_switches + j + 1

\* mutant: core identifiers taken one too high
FatTreeCorePeerOff(aggregation_switches, group_step, j) ==
    2 * aggregation_switches + group_step + j + 2

\* v2 of the core wiring loop
FatTreeCorePeer(aggregation_switches, group_step, j) ==
    2 * aggregation_switches + group_step + j + 1

\* body of "for j in range(s_per_core_group)" and the group_step advance
FatTreeCoreLink ==
    /\ pc = "ft_core_j"
    /\ other' = other
    /\ self' = self
    /\ LET s_per_core_group == IntDiv(self.port_count, 2)
       IN  IF loc.j < s_per_core_group
           THEN /\ G' = AddLink(G, self.aggregation_switches + loc.i + 1,
                                FatTreeCorePeer(self.aggregation_switches,
                                                loc.group_step, loc.j))
                /\ loc' = [loc EXCEPT !.j = @ + 1]
                /\ pc' = pc
           ELSE /\ G' = G
                /\ loc' = [loc EXCEPT !.i = @ + 1,
                               !.group_step = @ + s_per_core_group]
                /\ pc' = "ft_core_i"

----------------------------------------------------------------------------
(* Fabric *)

\* Fabric.__init__(server_pods, edge_pods, nr_of_planes, port_count,
\*                 capacity_function)
FabricInit(server_pods, edge_pods, nr_of_planes, port_count, capacity_function) ==
    /\ pc = "start"
    /\ other' = other
    /\ loc' = [class |-> "Fabric", server_pods |-> server_pods,
               edge_pods |-> edge_pods, nr_of_planes |-> nr_of_planes,
               port_count |-> port_count,
               capacity_function |-> capacity_function]
    /\ G' = G
    /\ LET last_tor_idx == port_count * server_pods
           last_fabric_idx == last_tor_idx + nr_of_planes * server_pods
           last_spine_idx == last_fabric_idx + nr_of_planes * server_pods
           last_edge_idx == last_spine_idx + edge_pods * nr_of_planes
       IN  IF ArityRejected(capacity_function)
           THEN /\ pc' = "ValueError"
                /\ self' = self
           ELSE /\ pc' = "constructed"
                /\ self' = [kind |-> "Fabric",
                            descriptor |-> "Fabric_" \o ToString(server_pods) \o "_"
                                              \o ToString(edge_pods) \o "_"
                                              \o ToString(nr_of_planes) \o "_"
                                              \o ToString(port_count),
                            capacity_function |-> capacity_function,
                            server_pods |-> server_pods,
                            edge_pods |-> edge_pods,
                            nr_of_planes |-> nr_of_planes,
                            port_count |-> port_count,
                            indices |-> <<Range(1, last_tor_idx + 1),
                                          Range(last_tor_idx + 1, last_fabric_idx + 1),
                                          Range(last_fabric_idx + 1, last_spine_idx + 1),
                                          Range(last_spine_idx + 1, last_edge_idx + 1)>>]

tor_idx_range == self.indices[1]
fabric_idx_range == self.indices[2]
spine_idx_range == self.indices[3]
edge_idx_range == self.indices[4]

\* gen_graph: gen_nodes, first_fabric_s_idx and the start of the ToR loop
FabricGenNodes ==
    /\ pc = "constructed"
    /\ other' = other
    /\ self.kind = "Fabric"
    /\ self' = self
    /\ G' = gen_nodes(<<RLen(tor_idx_range), RLen(fabric_idx_range),
                        RLen(spine_idx_range), RLen(edge_idx_range)>>)
    /\ IF REmpty(fabric_idx_range)
       THEN /\ pc' = "IndexError"
            /\ loc' = loc
       ELSE /\ pc' = "fb_tor_i"
            /\ loc' = [i |-> tor_idx_range.start, j |-> 0, pod_idx |-> 0,
                       first_fabric_s_idx |-> RAt(fabric_idx_range, 0)]

\* mutant: the 1-based identifier is divided
FabricPodIdxOneBased(i, port_count) == IntDiv(i, port_count)

\* pod_idx = int((i - 1) / self.port_count)
FabricPodIdx(i, port_count) == IntDiv(i - 1, port_count)

\* head of "for i in self.tor_idx_range"
FabricTorHead ==
    /\ pc = "fb_tor_i"
    /\ other' = other
    /\ self' = self
    /\ G' = G
    /\ IF loc.i < tor_idx_range.stop
       THEN /\ loc' = [loc EXCEPT !.j = 0,
                           !.pod_idx = FabricPodIdx(loc.i, self.port_count)]
            /\ pc' = "fb_tor_j"
       ELSE /\ loc' = [i |-> fabric_idx_range.start, plane |-> 0, current |-> 0,
                       caller |-> "fb_fabric_i"]
            /\ pc' = "fb_fabric_i"

\* v2 of the intra pod loop
FabricPodPeer(first_fabric_s_idx, nr_of_planes, pod_idx, j) ==
    first_fabric_s_idx + nr_of_planes * pod_idx + j

\* body of "for j in range(self.nr_of_planes)"
FabricTorLink ==
    /\ pc = "fb_tor_j"
    /\ other' = other
    /\ self' = self
    /\ IF loc.j < self.nr_of_planes
       THEN /\ G' = AddLink(G, loc.i,
                            FabricPodPeer(loc.first_fabric_s_idx, self.nr_of_planes,
                                          loc.pod_idx, loc.j))
            /\ loc' = [loc EXCEPT !.j = @ + 1]
            /\ pc' = pc
       ELSE /\ G' = G
            /\ loc' = [loc EXCEPT !.i = @ + 1]
            /\ pc' = "fb_tor_i"

\* the plane check of connect_to_plane_switches
PlaneRejected(plane, nr_of_planes) == plane < 0 \/ plane > nr_of_planes

\* entry of connect_to_plane_switches(G, topo, plane, switch_idx): the check and
\* "current = topo.spine_idx_range[0] + plane"
ConnectEnter(caller) ==
    IF PlaneRejected(loc.plane, self.nr_of_planes)
    THEN /\ pc' = "ValueError"
         /\ loc' = loc
    ELSE IF REmpty(spine_idx_range)
    THEN /\ pc' = "IndexError"
         /\ loc' = loc
    ELSE /\ pc' = "fb_plane"
         /\ loc' = [loc EXCEPT !.current = RAt(spine_idx_range, 0) + loc.plane,
                               !.caller = caller]

\* head of "for i in self.fabric_idx_range": the call for fabric switch i
FabricFabricHead ==
    /\ pc = "fb_fabric_i"
    /\ other' = other
    /\ self' = self
    /\ G' = G
    /\ IF loc.i < fabric_idx_range.stop
       THEN ConnectEnter("fb_fabric_i")
       ELSE /\ loc' = [loc EXCEPT !.i = edge_idx_range.start, !.plane = 0]
            /\ pc' = "fb_edge_i"

\* head of "for i in self.edge_idx_range": the call for edge switch i
FabricEdgeHead ==
    /\ pc = "fb_edge_i"
    /\ other' = other
    /\ self' = self
    /\ G' = G
    /\ IF loc.i < edge_idx_range.stop
       THEN ConnectEnter("fb_edge_i")
       ELSE /\ loc' = loc
            /\ pc' = "capacities"

\* mutant: the plane never advances
NextPlaneStuck(plane, nr_of_planes) == plane

\* plane = (plane + 1) % self.nr_of_planes
NextPlane(plane, nr_of_planes) == PyMod(plane + 1, nr_of_planes)

\* the while loop of connect_to_plane_switches, and on its exit the return to
\* the calling loop with the plane advanced
ConnectToPlaneSwitches ==
    /\ pc = "fb_plane"
    /\ other' = other
    /\ self' = self
    /\ IF loc.current <= RLast(spine_idx_range)
       THEN /\ G' = AddLink(G, loc.current, loc.i)
            /\ loc' = [loc EXCEPT !.current = @ + self.nr_of_planes]
            /\ pc' = pc
       ELSE /\ G' = G
            /\ loc' = [loc EXCEPT !.i = @ + 1,
                                  !.plane = NextPlane(@, self.nr_of_planes)]
            /\ pc' = loc.caller

----------------------------------------------------------------------------
(* Jupiter (switch level) and Jupiter_bl (block level): shared constants *)

SwitchesPerSpine == 6
SwitchesPerMiddleBlock == 4
MiddleBlockPerAggregation == 8
TorsPerAggregationBlock == 32
UplinksPerSwitch == 8
PortsPerMiddleBlockUp == 32

\* The spine_block_count < aggregation_block_count check of both constructors.
\* mutant: equal block counts are rejected too
BlockCountsRejectedOrEqual(spine_block_count, aggregation_block_count) ==
    spine_block_count <= aggregation_block_count

BlockCountsRejected(spine_block_count, aggregation_block_count) ==
    spine_block_count < aggregation_block_count

\* Jupiter.__init__(spine_block_count, aggregation_block_count,
\*                  capacity_function)
JupiterInit(spine_block_count, aggregation_block_count, capacity_function) ==
    /\ pc = "start"
    /\ other' = other
    /\ loc' = [class |-> "Jupiter", spine_block_count |-> spine_block_count,
               aggregation_block_count |-> aggregation_block_count,
               capacity_function |-> capacity_function]
    /\ G' = G
    /\ IF BlockCountsRejected(spine_block_count, aggregation_block_count)
       THEN /\ pc' = "ValueError"
            /\ self' = self
       ELSE LET tor_range ==
                    Range(1, aggregation_block_count * TorsPerAggregationBlock + 1)
                last_tor_idx == RLast(tor_range)
                agg_range ==
                    LayerAfter(last_tor_idx,
                               aggregation_block_count * MiddleBlockPerAggregation * 4)
                last_agg_idx == RLast(agg_range)
                spine_range ==
                    LayerAfter(last_agg_idx, spine_block_count * SwitchesPerSpine)
            IN  IF REmpty(tor_range) \/ REmpty(agg_range)
                THEN /\ pc' = "IndexError"
                     /\ self' = self
                ELSE IF ArityRejected(capacity_function)
                THEN /\ pc' = "ValueError"
                     /\ self' = self
                ELSE /\ pc' = "constructed"
                     /\ self' = [kind |-> "Jupiter",
                                 descriptor |-> "Jupiter_"
                                     \o ToString(spine_block_count) \o "_"
                                     \o ToString(aggregation_block_count),
                                 capacity_function |-> capacity_function,
                                 spine_block_count |-> spine_block_count,
                                 aggregation_block_count |-> aggregation_block_count,
                                 indices |-> <<tor_range, agg_range, spine_range>>]

\* The prestructured index lists of gen_graph, filled from the running
\* current_idx counter that starts at 1: tors[ab][t], aggregation[ab][mb][sw]
\* and spines[sb][j].
JTors(ab, t) == 1 + ab * TorsPerAggregationBlock + t

JAggregationFirst == 1 + self.aggregation_block_count * TorsPerAggregationBlock

\* mutant: the middle blocks are laid out with the stride of a spine block
JAggregationSpineStride(ab, mb, sw) ==
    JAggregationFirst + (ab * 8 + mb) * SwitchesPerSpine + sw

JAggregation(ab, mb, sw) == JAggregationFirst + (ab * 8 + mb) * 4 + sw

JSpinesFirst == JAggregationFirst + self.aggregation_block_count * 8 * 4

JSpines(sb, j) == JSpinesFirst + sb * SwitchesPerSpine + j

\* gen_graph: gen_nodes, the prestructuring with its three assertions, and the
\* start of the intra spine loop
JupiterGenNodes ==
    /\ pc = "constructed"
    /\ other' = other
    /\ self.kind = "Jupiter"
    /\ self' = self
    /\ G' = gen_nodes(<<RLen(self.indices[1]), RLen(self.indices[2]),
                        RLen(self.indices[3])>>)
    /\ IF \/ RAt(self.indices[1], 0) # 1
          \/ RAt(self.indices[2], 0) # JAggregationFirst
          \/ REmpty(self.indices[3])
          \/ RAt(self.indices[3], 0) # JSpinesFirst
       THEN /\ pc' = IF REmpty(self.indices[3]) THEN "IndexError" ELSE "AssertionError"
            /\ loc' = loc
       ELSE /\ pc' = "ju_spine"
            /\ loc' = [spine_idx |-> 0, spine_block |-> 0, switch |-> 0, previous |-> 0]

\* body of "for previous in range(0, switch)" of the intra spine loop
JupiterSpineLink ==
    /\ pc = "ju_spine"
    /\ other' = other
    /\ loc.spine_block < self.spine_block_count
    /\ loc.previous < loc.switch
    /\ self' = self
    /\ G' = AddLink(G, RAt(self.indices[3], loc.spine_idx),
                    JSpines(loc.spine_block, loc.previous))
    /\ loc' = [loc EXCEPT !.previous = @ + 1]
    /\ pc' = pc

JAggStart ==
    [agg_idx |-> 0, spine_block_idx |-> 0, spine_switch_pos |-> 0,
     aggregation_block |-> 0, middle_block |-> 0, switch |-> 0, previous |-> 0,
     up |-> 0]

\* "spine_idx += 1" and the advance of the switch and spine_block loops; after
\* the last spine block, the start of the aggregation loops
JupiterSpineNext ==
    /\ pc = "ju_spine"
    /\ other' = other
    /\ self' = self
    /\ G' = G
    /\ IF loc.spine_block >= self.spine_block_count
       THEN /\ loc' = JAggStart
            /\ pc' = "ju_agg_mesh"
       ELSE /\ loc.previous >= loc.switch
            /\ pc' = pc
            /\ loc' = IF loc.switch + 1 < SwitchesPerSpine
                      THEN [loc EXCEPT !.spine_idx = @ + 1, !.switch = @ + 1,
                                       !.previous = 0]
                      ELSE [loc EXCEPT !.spine_idx = @ + 1, !.switch = 0,
                                       !.previous = 0, !.spine_block = @ + 1]

\* body of "for previous in range(0, switch)" of the intra aggregation loop
JupiterAggMeshLink ==
    /\ pc = "ju_agg_mesh"
    /\ other' = other
    /\ loc.aggregation_block < self.aggregation_block_count
    /\ loc.previous < loc.switch
    /\ self' = self
    /\ G' = AddLink(G, RAt(self.indices[2], loc.agg_idx),
                    JAggregation(loc.aggregation_block, loc.middle_block, loc.previous))
    /\ loc' = [loc EXCEPT !.previous = @ + 1]
    /\ pc' = pc

\* end of the intra aggregation loop of one switch: on to its uplinks; after
\* the last aggregation block, the start of the ToR loops
JupiterAggMeshDone ==
    /\ pc = "ju_agg_mesh"
    /\ other' = other
    /\ self' = self
    /\ G' = G
    /\ IF loc.aggregation_block >= self.aggregation_block_count
       THEN /\ loc' = [tor_idx |-> 0, aggregation_block |-> 0, tor |-> 0, out |-> 0]
            /\ pc' = "ju_tor"
       ELSE /\ loc.previous >= loc.switch
            /\ loc' = [loc EXCEPT !.up = 0]
            /\ pc' = "ju_agg_up"

\* The cursor advance after one uplink: next spine block, and the next switch
\* position when the block index comes back to 0.
NextSpineBlockIdx(spine_block_idx, spine_block_count) ==
    PyMod(spine_block_idx + 1, spine_block_count)

NextSpineSwitchPos(spine_switch_pos, new_block_idx) ==
    IF new_block_idx = 0
    THEN PyMod(spine_switch_pos + 1, SwitchesPerSpine)
    ELSE spine_switch_pos

\* body of "for _ in range(0, 8)": one uplink of the current aggregation switch
JupiterUplink ==
    /\ pc = "ju_agg_up"
    /\ other' = other
    /\ loc.up < UplinksPerSwitch
    /\ self' = self
    /\ G' = AddLink(G, RAt(self.indices[2], loc.agg_idx),
                    JSpines(loc.spine_block_idx, loc.spine_switch_pos))
    /\ LET nb == NextSpineBlockIdx(loc.spine_block_idx, self.spine_block_count)
       IN  loc' = [loc EXCEPT !.up = @ + 1,
                              !.spine_block_idx = nb,
                              !.spine_switch_pos = NextSpineSwitchPos(@, nb)]
    /\ pc' = pc

\* "agg_idx += 1" and the advance of the switch, middle_block and
\* aggregation_block loops
JupiterAggNext ==
    /\ pc = "ju_agg_up"
    /\ other' = other
    /\ loc.up >= UplinksPerSwitch
    /\ self' = self
    /\ G' = G
    /\ pc' = "ju_agg_mesh"
    /\ loc' = IF loc.switch + 1 < 4
              THEN [loc EXCEPT !.agg_idx = @ + 1, !.switch = @ + 1, !.previous = 0]
              ELSE IF loc.middle_block + 1 < 8
              THEN [loc EXCEPT !.agg_idx = @ + 1, !.switch = 0, !.previous = 0,
                               !.middle_block = @ + 1]
              ELSE [loc EXCEPT !.agg_idx = @ + 1, !.switch = 0, !.previous = 0,
                               !.middle_block = 0, !.aggregation_block = @ + 1]

\* switch_pos = int(tor / 8) and second_switch_pos = (switch_pos + 1) % 4
JTorSwitchPos(tor) == IntDiv(tor, 8)

\* mutant: the redundant link goes to the same switch as the first one
JTorSecondSwitchPosSame(switch_pos) == PyMod(switch_pos, 4)

JTorSecondSwitchPos(switch_pos) == PyMod(switch_pos + 1, 4)

\* body of "for out in range(0, 8)": the two redundant links of a ToR switch
\* into middle block out
JupiterTorLink ==
    /\ pc = "ju_tor"
    /\ other' = other
    /\ loc.aggregation_block < self.aggregation_block_count
    /\ loc.out < 8
    /\ self' = self
    /\ LET v1 == RAt(self.indices[1], loc.tor_idx)
           switch_pos == JTorSwitchPos(loc.tor)
           first == AddLink(G, v1, JAggregation(loc.aggregation_block, loc.out,
                                                switch_pos))
       IN  G' = AddLink(first, v1,
                        JAggregation(loc.aggregation_block, loc.out,
                                     JTorSecondSwitchPos(switch_pos)))
    /\ loc' = [loc EXCEPT !.out = @ + 1]
    /\ pc' = pc

\* "tor_idx += 1" and the advance of the tor and aggregation_block loops; after
\* the last aggregation block, on to init_capacities
JupiterTorNext ==
    /\ pc = "ju_tor"
    /\ other' = other
    /\ self' = self
    /\ G' = G
    /\ IF loc.aggregation_block >= self.aggregation_block_count
       THEN /\ loc' = loc
            /\ pc' = "capacities"
       ELSE /\ loc.out >= 8
            /\ pc' = pc
            /\ loc' = IF loc.tor + 1 < TorsPerAggregationBlock
                      THEN [loc EXCEPT !.tor_idx = @ + 1, !.tor = @ + 1, !.out = 0]
                      ELSE [loc EXCEPT !.tor_idx = @ + 1, !.tor = 0, !.out = 0,
                                       !.aggregation_block = @ + 1]

----------------------------------------------------------------------------
(* Jupiter_bl (block level) *)

\* The spine block counts explored for Jupiter_bl: the small ones, and those
\* from ports_per_middle_block_up on, where the full bipartite branch ends and
\* the round-robin branch runs.
BlSpineCounts ==
    (0 .. MaxSpineBlocks)
        \cup (PortsPerMiddleBlockUp .. (PortsPerMiddleBlockUp + SpineOver))

\* Jupiter_bl.__init__(spine_block_count, aggregation_block_count,
\*                     capacity_function)
JupiterBlInit(spine_block_count, aggregation_block_count, capacity_function) ==
    /\ pc = "start"
    /\ other' = other
    /\ loc' = [class |-> "Jupiter_bl", spine_block_count |-> spine_block_count,
               aggregation_block_count |-> aggregation_block_count,
               capacity_function |-> capacity_function]
    /\ G' = G
    /\ IF BlockCountsRejected(spine_block_count, aggregation_block_count)
       THEN /\ pc' = "ValueError"
            /\ self' = self
       ELSE LET tor_range ==
                    Range(1, aggregation_block_count * TorsPerAggregationBlock + 1)
                last_tor_idx == RLast(tor_range)
                agg_range ==
                    LayerAfter(last_tor_idx,
                               aggregation_block_count * MiddleBlockPerAggregation)
                last_agg_idx == RLast(agg_range)
                spine_range == LayerAfter(last_agg_idx, spine_block_count)
            IN  IF REmpty(tor_range) \/ REmpty(agg_range)
                THEN /\ pc' = "IndexError"
                     /\ self' = self
                ELSE IF ArityRejected(capacity_function)
                THEN /\ pc' = "ValueError"
                     /\ self' = self
                ELSE /\ pc' = "constructed"
                     /\ self' = [kind |-> "Jupiter_bl",
                                 descriptor |-> "Jupiter_bl_"
                                     \o ToString(spine_block_count) \o "_"
                                     \o ToString(aggregation_block_count),
                                 capacity_function |-> capacity_function,
                                 spine_block_count |-> spine_block_count,
                                 aggregation_block_count |-> aggregation_block_count,
                                 indices |-> <<tor_range, agg_range, spine_range>>]

\* The prestructured index lists of Jupiter_bl.gen_graph: aggregation[ab][mb]
\* and spines[sb], filled from the running current_idx counter.
BlAggregation(ab, mb) == JAggregationFirst + ab * 8 + mb

BlSpinesFirst == JAggregationFirst + self.aggregation_block_count * 8

\* mutant: the spine list is filled from the start of the aggregation layer
BlSpinesInAggregation(sb) == JAggregationFirst + sb

BlSpines(sb) == BlSpinesFirst + sb

\* gen_graph: gen_nodes, the prestructuring with its three assertions, and the
\* start of the ToR loops
JupiterBlGenNodes ==
    /\ pc = "constructed"
    /\ other' = other
    /\ self.kind = "Jupiter_bl"
    /\ self' = self
    /\ G' = gen_nodes(<<RLen(self.indices[1]), RLen(self.indices[2]),
                        RLen(self.indices[3])>>)
    /\ IF \/ RAt(self.indices[1], 0) # 1
          \/ RAt(self.indices[2], 0) # JAggregationFirst
          \/ REmpty(self.indices[3])
          \/ RAt(self.indices[3], 0) # BlSpinesFirst
       THEN /\ pc' = IF REmpty(self.indices[3]) THEN "IndexError" ELSE "AssertionError"
            /\ loc' = loc
       ELSE /\ pc' = "bl_tor"
            /\ loc' = [tor_idx |-> 0, aggregation_block |-> 0, tor |-> 0, out |-> 0]

\* body of "for out in range(0, 8)": ToR switch to middle block out
JupiterBlTorLink ==
    /\ pc = "bl_tor"
    /\ other' = other
    /\ loc.aggregation_block < self.aggregation_block_count
    /\ loc.out < 8
    /\ self' = self
    /\ G' = AddLink(G, RAt(self.indices[1], loc.tor_idx),
                    BlAggregation(loc.aggregation_block, loc.out))
    /\ loc' = [loc EXCEPT !.out = @ + 1]
    /\ pc' = pc

\* mutant: the round-robin cursor is state shared by all invocations
JupiterBlTorNextSharedCursor ==
    /\ pc = "bl_tor"
    /\ other' = other
    /\ self' = self
    /\ G' = G
    /\ IF loc.aggregation_block >= self.aggregation_block_count
       THEN /\ loc' = [agg_idx |-> 0,
                       spine_block_idx |->
                           IF "spine_block_idx" \in DOMAIN other.loc
                           THEN other.loc.spine_block_idx ELSE 0,
                       aggregation_block |-> 0,
                       middle_block |-> 0, spine |-> 0]
            /\ pc' = "bl_agg"
       ELSE /\ loc.out >= 8
            /\ pc' = pc
            /\ loc' = IF loc.tor + 1 < TorsPerAggregationBlock
                      THEN [loc EXCEPT !.tor_idx = @ + 1, !.tor = @ + 1, !.out = 0]
                      ELSE [loc EXCEPT !.tor_idx = @ + 1, !.tor = 0, !.out = 0,
                                       !.aggregation_block = @ + 1]

\* "tor_idx += 1" and the advance of the tor and aggregation_block loops; after
\* the last aggregation block, the start of the aggregation to spine loops
JupiterBlTorNext ==
    /\ pc = "bl_tor"
    /\ other' = other
    /\ self' = self
    /\ G' = G
    /\ IF loc.aggregation_block >= self.aggregation_block_count
       THEN /\ loc' = [agg_idx |-> 0, spine_block_idx |-> 0, aggregation_block |-> 0,
                       middle_block |-> 0, spine |-> 0]
            /\ pc' = "bl_agg"
       ELSE /\ loc.out >= 8
            /\ pc' = pc
            /\ loc' = IF loc.tor + 1 < TorsPerAggregationBlock
                      THEN [loc EXCEPT !.tor_idx = @ + 1, !.tor = @ + 1, !.out = 0]
                      ELSE [loc EXCEPT !.tor_idx = @ + 1, !.tor = 0, !.out = 0,
                                       !.aggregation_block = @ + 1]

\* The branch test: every spine block can be reached by one middle block.
BlFullBipartite == PortsPerMiddleBlockUp >= self.spine_block_count

\* How many links one middle block makes in its branch.
BlLinksPerMiddleBlock ==
    IF BlFullBipartite THEN RLen(self.indices[3]) ELSE PortsPerMiddleBlockUp

\* body of "for spine in range(0, len(self.spine_idx_range))": the full
\* bipartite branch
JupiterBlFullLink ==
    /\ pc = "bl_agg"
    /\ other' = other
    /\ loc.aggregation_block < self.aggregation_block_count
    /\ BlFullBipartite
    /\ loc.spine < BlLinksPerMiddleBlock
    /\ self' = self
    /\ G' = AddLink(G, RAt(self.indices[2], loc.agg_idx),
                    RAt(self.indices[3], loc.spine))
    /\ loc' = [loc EXCEPT !.spine = @ + 1]
    /\ pc' = pc

\* mutant: the cursor wraps one position early
BlNextSpineBlockIdxEarlyWrap(spine_block_idx, spine_block_count) ==
    IF spine_block_idx + 2 >= spine_block_count THEN 0 ELSE spine_block_idx + 1

\* mutant: the cursor advances by two
BlNextSpineBlockIdxSkip(spine_block_idx, spine_block_count) ==
    IF spine_block_idx + 2 >= spine_block_count THEN 0 ELSE spine_block_idx + 2

\* The cursor advance of the round-robin branch.
BlNextSpineBlockIdx(spine_block_idx, spine_block_count) ==
    IF spine_block_idx + 1 = spine_block_count THEN 0 ELSE spine_block_idx + 1

\* body of "for _ in range(0, self.ports_per_middle_block_up)": the
\* round-robin branch
JupiterBlRoundRobinLink ==
    /\ pc = "bl_agg"
    /\ other' = other
    /\ loc.aggregation_block < self.aggregation_block_count
    /\ ~BlFullBipartite
    /\ loc.spine < BlLinksPerMiddleBlock
    /\ self' = self
    /\ G' = AddLink(G, RAt(self.indices[2], loc.agg_idx),
                    BlSpines(loc.spine_block_idx))
    /\ loc' = [loc EXCEPT !.spine = @ + 1,
                          !.spine_block_idx =
                              BlNextSpineBlockIdx(@, self.spine_block_count)]
    /\ pc' = pc

\* mutant: the cursor restarts at 0 with every aggregation block
JupiterBlAggNextRestart ==
    /\ pc = "bl_agg"
    /\ other' = other
    /\ self' = self
    /\ G' = G
    /\ IF loc.aggregation_block >= self.aggregation_block_count
       THEN /\ loc' = loc
            /\ pc' = "capacities"
       ELSE /\ loc.spine >= BlLinksPerMiddleBlock
            /\ pc' = pc
            /\ loc' = IF loc.middle_block + 1 < 8
                      THEN [loc EXCEPT !.agg_idx = @ + 1, !.middle_block = @ + 1,
                                       !.spine = 0]
                      ELSE [loc EXCEPT !.agg_idx = @ + 1, !.middle_block = 0,
                                       !.spine = 0, !.aggregation_block = @ + 1,
                                       !.spine_block_idx = 0]

\* "agg_idx += 1" and the advance of the middle_block and aggregation_block
\* loops; after the last aggregation block, on to init_capacities
JupiterBlAggNext ==
    /\ pc = "bl_agg"
    /\ other' = other
    /\ self' = self
    /\ G' = G
    /\ IF loc.aggregation_block >= self.aggregation_block_count
       THEN /\ loc' = loc
            /\ pc' = "capacities"
       ELSE /\ loc.spine >= BlLinksPerMiddleBlock
            /\ pc' = pc
            /\ loc' = IF loc.middle_block + 1 < 8
                      THEN [loc EXCEPT !.agg_idx = @ + 1, !.middle_block = @ + 1,
                                       !.spine = 0]
                      ELSE [loc EXCEPT !.agg_idx = @ + 1, !.middle_block = 0,
                                       !.spine = 0, !.aggregation_block = @ + 1]

----------------------------------------------------------------------------
(* Topology.init_capacities, and the return of gen_graph. *)

\* mutant: the endpoints are passed in the wrong order
init_capacitiesSwapped(topo, g) ==
    IF topo.capacity_function # None
    THEN IF topo.capacity_function.nr_of_params = 2
         THEN [g EXCEPT !.capacity = [e \in g.edges |-> Cap2(e[2], e[1])]]
         ELSE [g EXCEPT !.capacity = [e \in g.edges |-> Cap3(e[2], e[1], topo)]]
    ELSE g

\* init_capacities(self, G): every edge gets the 'capacity' attribute from the
\* capacity function, called with or without the topology object; G is
\* returned untouched when there is no capacity function.
init_capacities(topo, g) ==
    IF topo.capacity_function # None
    THEN IF topo.capacity_function.nr_of_params = 2
         THEN [g EXCEPT !.capacity = [e \in g.edges |-> Cap2(e[1], e[2])]]
         ELSE IF topo.capacity_function.nr_of_params = 3
              THEN [g EXCEPT !.capacity =
                                 [e \in g.edges |-> Cap3(e[1], e[2], topo)]]
              ELSE g
    ELSE g

\* "G = self.init_capacities(G)" and "return G"
InitCapacities ==
    /\ pc = "capacities"
    /\ other' = other
    /\ G' = init_capacities(self, G)
    /\ pc' = "done"
    /\ UNCHANGED <<self, loc>>

----------------------------------------------------------------------------
(* Specifications: one per topology class, and all four together. *)

FatTreeNew == \E port_count \in PortCounts : FatTreeInit(port_count, None)

FabricNew ==
    \E server_pods \in 0 .. MaxServerPods, edge_pods \in 0 .. MaxEdgePods,
       nr_of_planes \in 0 .. MaxPlanes, port_count \in 0 .. MaxFabricPorts :
        FabricInit(server_pods, edge_pods, nr_of_planes, port_count, None)

JupiterNew ==
    \E spine_block_count \in 0 .. MaxSpineBlocks,
       aggregation_block_count \in 0 .. MaxAggBlocks :
        JupiterInit(spine_block_count, aggregation_block_count, None)

JupiterBlNew ==
    \E spine_block_count \in BlSpineCounts,
       aggregation_block_count \in 0 .. MaxAggBlocks :
        JupiterBlInit(spine_block_count, aggregation_block_count, None)

NextFatTree ==
    \/ FatTreeNew
    \/ FatTreeGenNodes
    \/ FatTreePodHead
    \/ FatTreePodLink
    \/ FatTreeCoreHead
    \/ FatTreeCoreLink
    \/ InitCapacities

SpecFatTree == Init /\ [][NextFatTree]_vars

NextFabric ==
    \/ FabricNew
    \/ FabricGenNodes
    \/ FabricTorHead
    \/ FabricTorLink
    \/ FabricFabricHead
    \/ FabricEdgeHead
    \/ ConnectToPlaneSwitches
    \/ InitCapacities

SpecFabric == Init /\ [][NextFabric]_vars

NextJupiter ==
    \/ JupiterNew
    \/ JupiterGenNodes
    \/ JupiterSpineLink
    \/ JupiterSpineNext
    \/ JupiterAggMeshLink
    \/ JupiterAggMeshDone
    \/ JupiterUplink
    \/ JupiterAggNext
    \/ JupiterTorLink
    \/ JupiterTorNext
    \/ InitCapacities

SpecJupiter == Init /\ [][NextJupiter]_vars

NextJupiterBl ==
    \/ JupiterBlNew
    \/ JupiterBlGenNodes
    \/ JupiterBlTorLink
    \/ JupiterBlTorNext
    \/ JupiterBlFullLink
    \/ JupiterBlRoundRobinLink
    \/ JupiterBlAggNext
    \/ InitCapacities

SpecJupiterBl == Init /\ [][NextJupiterBl]_vars

Next ==
    \/ FatTreeNew
    \/ FatTreeGenNodes
    \/ FatTreePodHead
    \/ FatTreePodLink
    \/ FatTreeCoreHead
    \/ FatTreeCoreLink
    \/ FabricNew
    \/ FabricGenNodes
    \/ FabricTorHead
    \/ FabricTorLink
    \/ FabricFabricHead
    \/ FabricEdgeHead
    \/ ConnectToPlaneSwitches
    \/ JupiterNew
    \/ JupiterGenNodes
    \/ JupiterSpineLink
    \/ JupiterSpineNext
    \/ JupiterAggMeshLink
    \/ JupiterAggMeshDone
    \/ JupiterUplink
    \/ JupiterAggNext
    \/ JupiterTorLink
    \/ JupiterTorNext
    \/ JupiterBlNew
    \/ JupiterBlGenNodes
    \/ JupiterBlTorLink
    \/ JupiterBlTorNext
    \/ JupiterBlFullLink
    \/ JupiterBlRoundRobinLink
    \/ JupiterBlAggNext
    \/ InitCapacities

Spec == Init /\ [][Next]_vars

\* The four constructors called with a capacity function: None, or a callable
\* of 0 .. MaxParams parameters.
FatTreeNewCap ==
    \E port_count \in PortCounts, capacity_function \in CapacityFunctions :
        FatTreeInit(port_count, capacity_function)

FabricNewCap ==
    \E server_pods \in 0 .. MaxServerPods, edge_pods \in 0 .. MaxEdgePods,
       nr_of_planes \in 0 .. MaxPlanes, port_count \in 0 .. MaxFabricPorts,
       capacity_function \in CapacityFunctions :
        FabricInit(server_pods, edge_pods, nr_of_planes, port_count,
                   capacity_function)

JupiterNewCap ==
    \E spine_block_count \in 0 .. MaxSpineBlocks,
       aggregation_block_count \in 0 .. MaxAggBlocks,
       capacity_function \in CapacityFunctions :
        JupiterInit(spine_block_count, aggregation_block_count, capacity_function)

JupiterBlNewCap ==
    \E spine_block_count \in BlSpineCounts,
       aggregation_block_count \in 0 .. MaxAggBlocks,
       capacity_function \in CapacityFunctions :
        JupiterBlInit(spine_block_count, aggregation_block_count,
                      capacity_function)

NextCapacity ==
    \/ FatTreeNewCap
    \/ FatTreeGenNodes
    \/ FatTreePodHead
    \/ FatTreePodLink
    \/ FatTreeCoreHead
    \/ FatTreeCoreLink
    \/ FabricNewCap
    \/ FabricGenNodes
    \/ FabricTorHead
    \/ FabricTorLink
    \/ FabricFabricHead
    \/ FabricEdgeHead
    \/ ConnectToPlaneSwitches
    \/ JupiterNewCap
    \/ JupiterGenNodes
    \/ JupiterSpineLink
    \/ JupiterSpineNext
    \/ JupiterAggMeshLink
    \/ JupiterAggMeshDone
    \/ JupiterUplink
    \/ JupiterAggNext
    \/ JupiterTorLink
    \/ JupiterTorNext
    \/ JupiterBlNewCap
    \/ JupiterBlGenNodes
    \/ JupiterBlTorLink
    \/ JupiterBlTorNext
    \/ JupiterBlFullLink
    \/ JupiterBlRoundRobinLink
    \/ JupiterBlAggNext
    \/ InitCapacities

SpecCapacity == Init /\ [][NextCapacity]_vars

\* Two gen_graph invocations on one object.  The running invocation owns pc,
\* loc and G; Switch suspends it and resumes (or starts) the other one, so the
\* two run one after the other or interleaved.  Control passes at every
\* step of FatTree.gen_graph; in Jupiter_bl.gen_graph before the call, between
\* the middle blocks of the uplink loops, and after the return.
SwitchPoint ==
    \/ self.kind = "FatTree"
    \/ /\ self.kind = "Jupiter_bl"
       /\ \/ pc \in {"constructed", "done"}
          \/ pc = "bl_agg" /\ loc.spine = 0

Switch ==
    /\ self # NoObject
    /\ SwitchPoint
    /\ pc' = other.pc
    /\ loc' = other.loc
    /\ G' = other.G
    /\ other' = [pc |-> pc, loc |-> loc, G |-> G]
    /\ self' = self

FatTreeNewTwo ==
    \E port_count \in 0 .. MaxTwoPortCount,
       capacity_function \in CapacityFunctions :
        FatTreeInit(port_count, capacity_function)

JupiterBlNewTwo ==
    \E spine_block_count \in
           (PortsPerMiddleBlockUp + 1) .. (PortsPerMiddleBlockUp + SpineOver),
       aggregation_block_count \in 0 .. MaxTwoAggBlocks :
        JupiterBlInit(spine_block_count, aggregation_block_count, None)

NextTwo ==
    \/ FatTreeNewTwo
    \/ FatTreeGenNodes
    \/ FatTreePodHead
    \/ FatTreePodLink
    \/ FatTreeCoreHead
    \/ FatTreeCoreLink
    \/ JupiterBlNewTwo
    \/ JupiterBlGenNodes
    \/ JupiterBlTorLink
    \/ JupiterBlTorNext
    \/ JupiterBlRoundRobinLink
    \/ JupiterBlAggNext
    \/ InitCapacities
    \/ Switch

SpecTwo == Init /\ [][NextTwo]_vars

\* Jupiter_bl with more spine blocks than one aggregation block has uplinks
\* (8 middle blocks of ports_per_middle_block_up uplinks each).
JupiterBlNewSparse ==
    \E spine_block_count \in
           (MiddleBlockPerAggregation * PortsPerMiddleBlockUp + 1) ..
               (MiddleBlockPerAggregation * PortsPerMiddleBlockUp + SpineOver),
       aggregation_block_count \in 0 .. MaxAggBlocks :
        JupiterBlInit(spine_block_count, aggregation_block_count, None)

NextSparse ==
    \/ JupiterBlNewSparse
    \/ JupiterBlGenNodes
    \/ JupiterBlTorLink
    \/ JupiterBlTorNext
    \/ JupiterBlRoundRobinLink
    \/ JupiterBlAggNext
    \/ InitCapacities

SpecSparse == Init /\ [][NextSparse]_vars

\* connect_to_plane_switches called on its own: on the graph gen_nodes gives
\* for a Fabric object, for one fabric or edge switch and a plane from
\* PlaneMargin below 0 to PlaneMargin above nr_of_planes.  plane_arg keeps the
\* argument of the call.
PlaneCall ==
    /\ pc = "constructed"
    /\ other' = other
    /\ self.kind = "Fabric"
    /\ self' = self
    /\ G' = gen_nodes(<<RLen(tor_idx_range), RLen(fabric_idx_range),
                        RLen(spine_idx_range), RLen(edge_idx_range)>>)
    /\ \E plane \in (0 - PlaneMargin) .. (self.nr_of_planes + PlaneMargin),
          switch_idx \in RSet(fabric_idx_range) \cup RSet(edge_idx_range) :
           loc' = [i |-> switch_idx, plane |-> plane, current |-> 0,
                   caller |-> "", plane_arg |-> plane]
    /\ pc' = "fb_call"

PlaneCallEnter ==
    /\ pc = "fb_call"
    /\ other' = other
    /\ self' = self
    /\ G' = G
    /\ ConnectEnter("fb_returned")

NextPlaneCall ==
    \/ FabricNew
    \/ PlaneCall
    \/ PlaneCallEnter
    \/ ConnectToPlaneSwitches

SpecPlaneCall == Init /\ [][NextPlaneCall]_vars

----------------------------------------------------------------------------
(* Vocabulary of the properties. *)

Constructed == self.kind # "none"

\* the graph has been returned by gen_graph
Done == pc = "done"

\* The parameter sets the topologies are meant for: FatTree with an even
\* port_count >= 2, Fabric with every count >= 1, Jupiter and Jupiter_bl with
\* spine_block_count >= aggregation_block_count >= 1.
ValidParams ==
    CASE self.kind = "FatTree" -> self.port_count >= 2 /\ self.port_count % 2 = 0
      [] self.kind = "Fabric" ->
            /\ self.server_pods >= 1
            /\ self.edge_pods >= 1
            /\ self.nr_of_planes >= 1
            /\ self.port_count >= 1
      [] self.kind \in {"Jupiter", "Jupiter_bl"} ->
            /\ self.aggregation_block_count >= 1
            /\ self.spine_block_count >= self.aggregation_block_count
      [] OTHER -> FALSE

\* Per-layer switch counts by the formulas of the architectures, leaf first.
LayerCounts ==
    CASE self.kind = "FatTree" ->
            <<(self.port_count * self.port_count) \div 2,
              (self.port_count * self.port_count) \div 2,
              (self.port_count * self.port_count) \div 4>>
      [] self.kind = "Fabric" ->
            <<self.server_pods * self.port_count,
              self.server_pods * self.nr_of_planes,
              self.server_pods * self.nr_of_planes,
              self.edge_pods * self.nr_of_planes>>
      [] self.kind = "Jupiter" ->
            <<self.aggregation_block_count * 32,
              self.aggregation_block_count * 8 * 4,
              self.spine_block_count * 6>>
      [] self.kind = "Jupiter_bl" ->
            <<self.aggregation_block_count * 32,
              self.aggregation_block_count * 8,
              self.spine_block_count>>

NrLayers == Len(self.indices)

Layer(k) == RSet(self.indices[k])

\* 0-based position of identifier x in layer k
Pos(k, x) == x - self.indices[k].start

\* the identifier at 0-based position q of layer k
AtPos(k, q) == self.indices[k].start + q

TotalSwitches == SumSeq([k \in 1 .. NrLayers |-> RLen(self.indices[k])])

Linked(u, v) == <<u, v>> \in G.edges

\* the neighbours of u inside layer k
Nbrs(u, k) == {v \in Layer(k) : Linked(u, v)}

\* all neighbours of u
AllNbrs(u) == {v \in G.nodes : Linked(u, v)}

----------------------------------------------------------------------------
(* C1: for every valid parameter set of the four topologies the layer ranges
   stored by the constructor are ordered leaf layer first, the first starts at
   1, each next one starts at the previous one's last identifier + 1, they are
   pairwise disjoint, each has the length the topology's formula gives, and
   their union is exactly 1 .. N with N the sum of those lengths. *)
C1_LayerRangesPartition ==
    (Constructed /\ ValidParams) =>
        /\ self.indices[1].start = 1
        /\ \A k \in 1 .. NrLayers :
              /\ RLen(self.indices[k]) = LayerCounts[k]
              /\ LayerCounts[k] >= 1
        /\ \A k \in 1 .. NrLayers - 1 :
              self.indices[k + 1].start = RLast(self.indices[k]) + 1
        /\ \A k, m \in 1 .. NrLayers : k # m => Layer(k) \cap Layer(m) = {}
        /\ UNION {Layer(k) : k \in 1 .. NrLayers} = 1 .. SumSeq(LayerCounts)

C1_Witness ==
    /\ Constructed
    /\ ValidParams
    /\ self.kind = "Fabric"
    /\ NrLayers = 4
    /\ RLen(self.indices[4]) >= 2
    /\ self.indices[2].start > 2

(* C2: for every valid parameter set, from gen_nodes on and in the returned
   graph, the node set is exactly 1 .. N, N being the sum of the lengths of the
   layer ranges, and every edge endpoint lies in one of the layer ranges: no
   wiring step adds a node. *)
C2_NodesExactlyOneToN ==
    (Constructed /\ ValidParams /\ pc # "constructed") =>
        /\ G.nodes = 1 .. TotalSwitches
        /\ \A e \in G.edges :
              /\ \E k \in 1 .. NrLayers : e[1] \in Layer(k)
              /\ \E k \in 1 .. NrLayers : e[2] \in Layer(k)

C2_Witness ==
    /\ Done
    /\ ValidParams
    /\ self.kind = "Jupiter"
    /\ G.nodes = 1 .. TotalSwitches
    /\ \E e \in G.edges : e[2] = TotalSwitches

(* C3: in the graph returned by gen_graph of any of the four topologies the
   edge relation is symmetric and irreflexive. *)
C3_SymmetricIrreflexive ==
    Done => \A e \in G.edges : <<e[2], e[1]>> \in G.edges /\ e[1] # e[2]

C3_Witness ==
    /\ Done
    /\ self.kind = "Jupiter_bl"
    /\ \E e \in G.edges : e[1] < e[2]

\* Physical cable count by the formulas of the architectures.
CableCount ==
    CASE self.kind = "FatTree" ->
            (self.port_count * self.port_count * self.port_count) \div 4
                + (self.port_count * self.port_count * self.port_count) \div 4
      [] self.kind = "Fabric" ->
            self.server_pods * self.port_count * self.nr_of_planes
                + self.nr_of_planes * self.server_pods * self.server_pods
                + self.nr_of_planes * self.edge_pods * self.server_pods
      [] self.kind = "Jupiter" ->
            15 * self.spine_block_count
                + self.aggregation_block_count * (8 * 6 + 32 * 8 + 32 * 16)
      [] self.kind = "Jupiter_bl" ->
            self.aggregation_block_count * 32 * 8
                + self.aggregation_block_count * 8 * Min(32, self.spine_block_count)

(* C4: for every valid parameter set of the four topologies no physical link
   is added twice, so the returned graph has exactly 2 x the cable count of the
   formulas as directed edges.  The code breaks this for Jupiter with one
   spine block: the 8 uplinks of a switch wrap around the 6 spine switches. *)
C4_EdgeCountTwiceCables ==
    (Done /\ ValidParams) => Cardinality(G.edges) = 2 * CableCount

----------------------------------------------------------------------------
(* FatTree wiring *)

HalfPorts == self.port_count \div 2

FatTreeDone == Done /\ self.kind = "FatTree" /\ ValidParams

\* the contiguous core group g: HalfPorts switches from position g * HalfPorts
CoreGroup(g) == {AtPos(3, g * HalfPorts + k) : k \in 0 .. HalfPorts - 1}

\* the aggregation switches of pod p
PodAggregation(p) == {AtPos(2, p * HalfPorts + k) : k \in 0 .. HalfPorts - 1}

(* C5: in FatTree with even port_count >= 2 the ToR and the aggregation range
   both split into port_count pods of port_count/2 contiguous switches, and
   every ToR switch is linked to every aggregation switch of its own pod and
   to no other switch: its degree is port_count/2, all into the aggregation
   layer. *)
C5_TorLinkedToOwnPod ==
    FatTreeDone =>
        /\ RLen(self.indices[1]) = self.port_count * HalfPorts
        /\ RLen(self.indices[2]) = self.port_count * HalfPorts
        /\ \A t \in 0 .. RLen(self.indices[1]) - 1 :
              /\ AllNbrs(AtPos(1, t)) = PodAggregation(t \div HalfPorts)
              /\ Cardinality(Nbrs(AtPos(1, t), 2)) = HalfPorts

C5_Witness ==
    /\ FatTreeDone
    /\ self.port_count >= 4
    /\ Linked(AtPos(1, self.port_count * HalfPorts - 1),
              AtPos(2, self.port_count * HalfPorts - 2))

(* C6: in FatTree with even port_count >= 2 the core range is port_count/2
   contiguous groups of port_count/2 switches, the i-th aggregation switch of
   every pod is linked to every switch of core group i and to no other core
   switch, and every pod reaches every core group through exactly one of its
   aggregation switches. *)
C6_AggregationToCoreGroup ==
    FatTreeDone =>
        /\ RLen(self.indices[3]) = HalfPorts * HalfPorts
        /\ \A q \in 0 .. RLen(self.indices[2]) - 1 :
              Nbrs(AtPos(2, q), 3) = CoreGroup(q % HalfPorts)
        /\ \A p \in 0 .. self.port_count - 1 : \A g \in 0 .. HalfPorts - 1 :
              Cardinality({a \in PodAggregation(p) :
                              Nbrs(a, 3) \cap CoreGroup(g) # {}}) = 1

C6_Witness ==
    /\ FatTreeDone
    /\ self.port_count >= 4
    /\ Linked(AtPos(2, self.port_count * HalfPorts - 1),
              AtPos(3, HalfPorts * HalfPorts - 1))

(* C7 as stated: every aggregation switch of a FatTree connects to exactly
   port_count/2 distinct core switches, one in each of the port_count/2
   contiguous core groups. *)
C7_OnePerCoreGroup ==
    FatTreeDone =>
        \A a \in Layer(2) :
            /\ Cardinality(Nbrs(a, 3)) = HalfPorts
            /\ \A g \in 0 .. HalfPorts - 1 :
                  Cardinality(Nbrs(a, 3) \cap CoreGroup(g)) = 1

(* C7 amended: every aggregation switch of a FatTree connects to exactly
   port_count/2 distinct core switches, all of them in one core group, the
   group whose index is the switch's position within its pod. *)
C7_AllInOneCoreGroup ==
    FatTreeDone =>
        \A a \in Layer(2) :
            /\ Cardinality(Nbrs(a, 3)) = HalfPorts
            /\ Nbrs(a, 3) \subseteq CoreGroup(Pos(2, a) % HalfPorts)

C7_Witness ==
    /\ FatTreeDone
    /\ self.port_count >= 4
    /\ Linked(AtPos(2, 1), AtPos(3, HalfPorts))
    /\ Linked(AtPos(2, 1), AtPos(3, HalfPorts + 1))

----------------------------------------------------------------------------
(* Fabric wiring *)

FabricDone == Done /\ self.kind = "Fabric" /\ ValidParams

\* plane of a fabric, spine or edge switch: its position modulo nr_of_planes
Plane(k, x) == Pos(k, x) % self.nr_of_planes

(* C8: in Fabric the ToR switch at position t is linked to exactly the
   nr_of_planes fabric switches of pod t div port_count and to no other
   switch; so every fabric switch has exactly port_count ToR neighbours, the
   ToR switches of its own pod. *)
C8_TorLinkedToPodFabric ==
    FabricDone =>
        /\ \A t \in 0 .. RLen(self.indices[1]) - 1 :
              AllNbrs(AtPos(1, t)) =
                  {AtPos(2, self.nr_of_planes * (t \div self.port_count) + k) :
                      k \in 0 .. self.nr_of_planes - 1}
        /\ \A q \in 0 .. RLen(self.indices[2]) - 1 :
              /\ Nbrs(AtPos(2, q), 1) =
                    {AtPos(1, (q \div self.nr_of_planes) * self.port_count + k) :
                        k \in 0 .. self.port_count - 1}
              /\ Cardinality(Nbrs(AtPos(2, q), 1)) = self.port_count

C8_Witness ==
    /\ FabricDone
    /\ self.server_pods >= 2
    /\ self.port_count >= 2
    /\ self.nr_of_planes >= 2
    /\ Linked(AtPos(1, RLen(self.indices[1]) - 1), AtPos(2, RLen(self.indices[2]) - 2))

(* C9: in Fabric a fabric switch and a spine switch are linked if and only if
   they are in the same plane, and an edge switch and a spine switch are
   linked if and only if they are in the same plane (plane = position in the
   layer range modulo nr_of_planes). *)
C9_PlanesCompleteBipartite ==
    FabricDone =>
        /\ \A f \in Layer(2) : \A sp \in Layer(3) :
              Linked(f, sp) <=> Plane(2, f) = Plane(3, sp)
        /\ \A e \in Layer(4) : \A sp \in Layer(3) :
              Linked(e, sp) <=> Plane(4, e) = Plane(3, sp)

C9_Witness ==
    /\ FabricDone
    /\ self.server_pods >= 2
    /\ self.nr_of_planes >= 2
    /\ Linked(AtPos(4, RLen(self.indices[4]) - 1), AtPos(3, RLen(self.indices[3]) - 1))
    /\ Linked(AtPos(2, 1), AtPos(3, self.nr_of_planes + 1))

(* C24: in FatTree with even port_count >= 2 every core switch is linked to
   exactly one aggregation switch of each pod, the one at the within-pod
   position of the core switch's group, the same in every pod; so every core
   switch and every aggregation switch has exactly port_count neighbours. *)
C24_CoreOnePerPod ==
    FatTreeDone =>
        /\ \A c \in Layer(3) :
              /\ \A p \in 0 .. self.port_count - 1 :
                    AllNbrs(c) \cap PodAggregation(p) =
                        {AtPos(2, p * HalfPorts + (Pos(3, c) \div HalfPorts))}
              /\ AllNbrs(c) \subseteq Layer(2)
              /\ Cardinality(AllNbrs(c)) = self.port_count
        /\ \A a \in Layer(2) : Cardinality(AllNbrs(a)) = self.port_count

C24_Witness ==
    /\ FatTreeDone
    /\ self.port_count >= 4
    /\ Linked(AtPos(3, HalfPorts), AtPos(2, 1))
    /\ Linked(AtPos(3, HalfPorts), AtPos(2, (self.port_count - 1) * HalfPorts + 1))
    /\ ~Linked(AtPos(3, HalfPorts), AtPos(2, 0))

----------------------------------------------------------------------------
(* Jupiter wiring *)

JupiterDone == Done /\ self.kind = "Jupiter" /\ ValidParams

\* number of uplinks made before the one the cursor is about to place
UplinksSoFar == UplinksPerSwitch * loc.agg_idx + loc.up

\* the cursor stands where the k-th uplink of the round robin belongs
CursorRoundRobin ==
    (pc = "ju_agg_up" /\ loc.up < UplinksPerSwitch) =>
        /\ loc.spine_block_idx = UplinksSoFar % self.spine_block_count
        /\ loc.spine_switch_pos =
              (UplinksSoFar \div self.spine_block_count) % SwitchesPerSpine

\* the spine switches receive numbers of uplinks that differ by at most 1
SpineUplinksBalanced ==
    JupiterDone =>
        \A s1, s2 \in Layer(3) :
            Cardinality(Nbrs(s1, 2)) <= Cardinality(Nbrs(s2, 2)) + 1

\* every aggregation switch has 8 distinct spine neighbours
EightDistinctUplinks ==
    JupiterDone =>
        \A a \in Layer(2) : Cardinality(Nbrs(a, 3)) = UplinksPerSwitch

(* C10: in Jupiter every switch of a middle block makes 8 uplinks to 8
   distinct spine switches, placed by one round-robin cursor over all
   aggregation switches: uplink k goes to position (k div spine_block_count)
   mod 6 of spine block k mod spine_block_count, and the uplink counts of any
   two spine switches differ by at most 1.  The code breaks the "8 distinct"
   part for one spine block. *)
C10_RoundRobinEightDistinct ==
    /\ CursorRoundRobin
    /\ EightDistinctUplinks
    /\ SpineUplinksBalanced

\* the spine block and the middle block a switch belongs to, by its position
SpineBlockOf(x) == Pos(3, x) \div SwitchesPerSpine

MiddleBlockOf(x) == Pos(2, x) \div SwitchesPerMiddleBlock

\* the links inside a set of switches, each counted once
LinksInside(S) == {e \in S \X S : e[1] < e[2] /\ Linked(e[1], e[2])}

(* C11: in Jupiter the 6 switches of every spine block are pairwise linked
   (15 links per spine block), the 4 switches of every middle block are
   pairwise linked (6 links per middle block), and no link joins two switches
   of different spine blocks or two switches of different middle blocks. *)
C11_BlocksAreFullMeshes ==
    JupiterDone =>
        /\ \A s1, s2 \in Layer(3) :
              s1 # s2 => (Linked(s1, s2) <=> SpineBlockOf(s1) = SpineBlockOf(s2))
        /\ \A m1, m2 \in Layer(2) :
              m1 # m2 => (Linked(m1, m2) <=> MiddleBlockOf(m1) = MiddleBlockOf(m2))
        /\ \A sb \in 0 .. self.spine_block_count - 1 :
              Cardinality(LinksInside({s \in Layer(3) : SpineBlockOf(s) = sb})) = 15
        /\ \A b \in 0 .. self.aggregation_block_count * MiddleBlockPerAggregation - 1 :
              Cardinality(LinksInside({m \in Layer(2) : MiddleBlockOf(m) = b})) = 6

C11_Witness ==
    /\ JupiterDone
    /\ self.spine_block_count >= 2
    /\ self.aggregation_block_count >= 2
    /\ Linked(AtPos(3, 6), AtPos(3, 11))
    /\ ~Linked(AtPos(3, 5), AtPos(3, 6))
    /\ Linked(AtPos(2, 36), AtPos(2, 39))
    /\ ~Linked(AtPos(2, 35), AtPos(2, 36))

(* C12: in Jupiter the ToR switch at position t (0..31) of aggregation block
   a is linked, in each of the 8 middle blocks of a, to exactly the switches
   at positions t div 8 and ((t div 8) + 1) mod 4, and to nothing else: it
   has exactly 16 links, all inside its own aggregation block. *)
C12_TorTwoSwitchesPerMiddleBlock ==
    JupiterDone =>
        \A x \in Layer(1) :
            LET a == Pos(1, x) \div TorsPerAggregationBlock
                t == Pos(1, x) % TorsPerAggregationBlock
                p == t \div 8
                expected ==
                    {AtPos(2, (a * MiddleBlockPerAggregation + mb)
                                  * SwitchesPerMiddleBlock + sp) :
                        mb \in 0 .. MiddleBlockPerAggregation - 1,
                        sp \in {p, (p + 1) % SwitchesPerMiddleBlock}}
            IN  /\ AllNbrs(x) = expected
                /\ Cardinality(AllNbrs(x)) = 16

C12_Witness ==
    /\ JupiterDone
    /\ self.aggregation_block_count >= 2
    /\ Linked(AtPos(1, 63), AtPos(2, 63))
    /\ Linked(AtPos(1, 63), AtPos(2, 60))
    /\ ~Linked(AtPos(1, 63), AtPos(2, 61))
    /\ ~Linked(AtPos(1, 63), AtPos(2, 31))

----------------------------------------------------------------------------
(* Jupiter_bl wiring *)

JupiterBlDone == Done /\ self.kind = "Jupiter_bl" /\ ValidParams

(* C13: in Jupiter_bl, when spine_block_count <= 32 every middle-block node
   is linked to every spine node; otherwise every middle-block node is linked
   to exactly 32 distinct spine nodes, the next 32 positions of one
   round-robin cursor that runs over all middle blocks in order and wraps to 0
   at spine_block_count. *)
C13_FullOrRoundRobinUplinks ==
    JupiterBlDone =>
        IF self.spine_block_count <= PortsPerMiddleBlockUp
        THEN \A m \in Layer(2) : Nbrs(m, 3) = Layer(3)
        ELSE \A m \in Layer(2) :
                /\ Nbrs(m, 3) =
                      {AtPos(3, (PortsPerMiddleBlockUp * Pos(2, m) + k)
                                    % self.spine_block_count) :
                          k \in 0 .. PortsPerMiddleBlockUp - 1}
                /\ Cardinality(Nbrs(m, 3)) = PortsPerMiddleBlockUp

C13_Witness ==
    /\ JupiterBlDone
    /\ self.spine_block_count = PortsPerMiddleBlockUp + 1
    /\ self.aggregation_block_count >= 2
    /\ Linked(AtPos(2, 1), AtPos(3, PortsPerMiddleBlockUp))
    /\ Linked(AtPos(2, 1), AtPos(3, 0))
    /\ ~Linked(AtPos(2, 1), AtPos(3, PortsPerMiddleBlockUp - 1))
    /\ ~Linked(AtPos(2, 0), AtPos(3, PortsPerMiddleBlockUp))

(* C14: in Jupiter_bl with spine_block_count > 32 and aggregation_block_count
   <= spine_block_count, the numbers of middle-block links of any two spine
   nodes differ by at most 1, and every middle-block node has exactly 32
   spine links. *)
C14_SpineNodesBalanced ==
    (JupiterBlDone /\ self.spine_block_count > PortsPerMiddleBlockUp
                   /\ self.aggregation_block_count <= self.spine_block_count) =>
        /\ \A s1, s2 \in Layer(3) :
              Cardinality(Nbrs(s1, 2)) <= Cardinality(Nbrs(s2, 2)) + 1
        /\ \A m \in Layer(2) : Cardinality(Nbrs(m, 3)) = PortsPerMiddleBlockUp

C14_Witness ==
    /\ JupiterBlDone
    /\ self.spine_block_count > PortsPerMiddleBlockUp
    /\ self.aggregation_block_count >= 2
    /\ \E s1, s2 \in Layer(3) : Cardinality(Nbrs(s1, 2)) = Cardinality(Nbrs(s2, 2)) + 1

\* the round-robin branch of Jupiter_bl has returned
RoundRobinDone ==
    JupiterBlDone /\ self.spine_block_count > PortsPerMiddleBlockUp

\* the first middle-block node of aggregation block b
FirstMiddleBlock(b) == AtPos(2, MiddleBlockPerAggregation * b)

\* the spine links one aggregation block makes in the round-robin branch
LinksPerAggregationBlock == MiddleBlockPerAggregation * PortsPerMiddleBlockUp

(* C22 as stated: in the round-robin branch of Jupiter_bl the cursor restarts
   at spine position 0 with each aggregation block, so the first middle-block
   node of every aggregation block is linked to spine positions 0..31. *)
C22_CursorRestartsPerBlock ==
    RoundRobinDone =>
        \A b \in 0 .. self.aggregation_block_count - 1 :
            Nbrs(FirstMiddleBlock(b), 3) =
                {AtPos(3, k) : k \in 0 .. PortsPerMiddleBlockUp - 1}

(* C22 amended: the cursor is set to 0 once, before the loops over the
   aggregation blocks, and persists across them: while the loops run it
   stands at (32 * agg_idx + spine) mod spine_block_count, and the first
   middle-block node of aggregation block b is linked to the spine positions
   (256 * b + k) mod spine_block_count, k in 0..31. *)
C22_CursorPersistsAcrossBlocks ==
    /\ (pc = "bl_agg" /\ self.spine_block_count > PortsPerMiddleBlockUp) =>
           loc.spine_block_idx =
               (PortsPerMiddleBlockUp * loc.agg_idx + loc.spine)
                   % self.spine_block_count
    /\ RoundRobinDone =>
           \A b \in 0 .. self.aggregation_block_count - 1 :
               Nbrs(FirstMiddleBlock(b), 3) =
                   {AtPos(3, (LinksPerAggregationBlock * b + k)
                                 % self.spine_block_count) :
                       k \in 0 .. PortsPerMiddleBlockUp - 1}

C22_Witness ==
    /\ RoundRobinDone
    /\ self.aggregation_block_count >= 2
    /\ LinksPerAggregationBlock % self.spine_block_count # 0
    /\ Linked(FirstMiddleBlock(1),
              AtPos(3, LinksPerAggregationBlock % self.spine_block_count))
    /\ ~Linked(FirstMiddleBlock(1),
               AtPos(3, (LinksPerAggregationBlock - 1) % self.spine_block_count))

----------------------------------------------------------------------------
(* Capacities *)

\* the edges that carry a 'capacity' attribute
Annotated == DOMAIN G.capacity

(* C15: in the graph gen_graph returns, with a capacity function of two
   parameters every directed edge carries capacity f(u, v), with one of three
   parameters every directed edge carries f(u, v, topology), and with none no
   edge carries a capacity; before the return, while the wiring loops run, no
   edge carries a capacity, so no edge is added after the annotation. *)
C15_CapacityOnEveryEdge ==
    /\ (Constructed /\ Done) =>
           IF self.capacity_function = None
           THEN Annotated = {}
           ELSE /\ Annotated = G.edges
                /\ self.capacity_function.nr_of_params = 2 =>
                       \A e \in G.edges : G.capacity[e] = Cap2(e[1], e[2])
                /\ self.capacity_function.nr_of_params = 3 =>
                       \A e \in G.edges : G.capacity[e] = Cap3(e[1], e[2], self)
                /\ self.capacity_function.nr_of_params \in {2, 3}
    /\ ~Done => Annotated = {}

C15_Witness ==
    /\ Done
    /\ self.kind = "Fabric"
    /\ self.capacity_function # None
    /\ self.capacity_function.nr_of_params = 3
    /\ \E e \in G.edges :
          /\ e[1] \in Layer(1)
          /\ G.capacity[e] = 10 + (e[1] - e[2])
          /\ G.capacity[<<e[2], e[1]>>] = 10 + (e[2] - e[1])
    /\ \E e \in G.edges : e[1] \in Layer(4) /\ G.capacity[e] = 40 + (e[1] - e[2])

----------------------------------------------------------------------------
(* Constructor outcomes.  While loc holds the arguments of __init__ the call
   has returned a topology (pc = "constructed") or has raised and left no
   object (self = NoObject). *)

CtorReturned == pc = "constructed" /\ Constructed

CtorRaised == pc \in {"ValueError", "IndexError"} /\ ~Constructed

CtorEnded == CtorReturned \/ CtorRaised

\* the configuration error of the constructors is a ValueError
ConfigurationError == pc = "ValueError" /\ ~Constructed

UnsupportedArity(capacity_function) ==
    /\ capacity_function # None
    /\ capacity_function.nr_of_params \notin {2, 3}

\* whenever a call with an unsupported capacity function ends, it has failed
UnsupportedArityNeverConstructs ==
    (CtorEnded /\ UnsupportedArity(loc.capacity_function)) => CtorRaised

\* ... and the failure is the configuration error
UnsupportedArityConfigurationError ==
    (CtorEnded /\ UnsupportedArity(loc.capacity_function)) => ConfigurationError

\* the parameters the class's own check rejects
OwnCheckRejects ==
    CASE loc.class = "FatTree" -> loc.port_count % 2 # 0
      [] loc.class = "Fabric" -> FALSE
      [] OTHER -> loc.spine_block_count < loc.aggregation_block_count

\* a supported capacity function, or none, is never the cause of the
\* configuration error
SupportedArityNotRejected ==
    (CtorEnded /\ ~UnsupportedArity(loc.capacity_function) /\ ConfigurationError)
        => OwnCheckRejects

(* C16: constructing any topology with a capacity function whose number of
   parameters is not 2 or 3 fails with the configuration error and yields no
   topology object; a capacity function of 2 or 3 parameters, or none, is not
   rejected by this check.  The code breaks the "configuration error" part
   where the constructor crashes before it reaches the check. *)
C16_UnsupportedArityRejected ==
    /\ UnsupportedArityNeverConstructs
    /\ UnsupportedArityConfigurationError
    /\ SupportedArityNotRejected

(* C17: FatTree construction fails with the configuration error for every
   integer port_count that is not even and >= 2 (odd, zero, negative), and
   succeeds for every even port_count >= 2.  The code accepts negative even
   values and crashes on zero. *)
C17_PortCountEvenAtLeastTwo ==
    (CtorEnded /\ loc.class = "FatTree"
               /\ ~UnsupportedArity(loc.capacity_function)) =>
        IF loc.port_count >= 2 /\ loc.port_count % 2 = 0
        THEN CtorReturned /\ self.kind = "FatTree"
        ELSE ConfigurationError

(* C18: construction of Jupiter and of Jupiter_bl fails with the
   configuration error whenever spine_block_count < aggregation_block_count,
   and succeeds for all spine_block_count >= aggregation_block_count >= 1; the
   outcome is the same in both variants. *)
C18_SpineAtLeastAggregation ==
    (CtorEnded /\ loc.class \in {"Jupiter", "Jupiter_bl"}
               /\ ~UnsupportedArity(loc.capacity_function)) =>
        /\ loc.spine_block_count < loc.aggregation_block_count => ConfigurationError
        /\ (loc.spine_block_count >= loc.aggregation_block_count
                /\ loc.aggregation_block_count >= 1) =>
               /\ CtorReturned
               /\ self.kind = loc.class
               /\ self.spine_block_count = loc.spine_block_count
               /\ self.aggregation_block_count = loc.aggregation_block_count

C18_Witness ==
    /\ CtorReturned
    /\ loc.class = "Jupiter_bl"
    /\ self.kind = "Jupiter_bl"
    /\ loc.spine_block_count = loc.aggregation_block_count
    /\ loc.aggregation_block_count >= 2

(* C19: once a constructor has returned a topology, for every integer
   parameter combination, zero counts included, gen_graph raises nothing.
   The code raises in Fabric.gen_graph when a layer is empty. *)
C19_GenerationNeverRaises ==
    Constructed => pc \notin {"ValueError", "IndexError"}

----------------------------------------------------------------------------
(* Two invocations of gen_graph on one object *)

BothReturned == Constructed /\ pc = "done" /\ other.pc = "done"

\* the two returned graphs have the same nodes, edges and capacities
ReturnedGraphsEqual == BothReturned => G = other.G

\* no step changes the object once it is constructed: layer ranges,
\* descriptor, capacity function and parameters stay as __init__ left them
ObjectUnchanged == Constructed => self' = self

\* the graphs are separate objects: a step of the running invocation leaves
\* the graph of the suspended one as it is
GraphsSeparate == other'.G # other.G => (other'.G = G /\ G' = other.G)

(* C20: two gen_graph invocations on the same topology object, run one after
   the other or interleaved, each return a graph with the same node set, edge
   set and capacities; the two graphs are separate objects, a step of one
   invocation never changing the graph of the other; and no step of either
   changes the object's layer ranges, descriptor or capacity function. *)
C20_TwoInvocationsAgree ==
    /\ []ReturnedGraphsEqual
    /\ [][ObjectUnchanged]_vars
    /\ [][GraphsSeparate]_vars

C20_Witness ==
    /\ BothReturned
    /\ self.kind = "Jupiter_bl"
    /\ G = other.G
    /\ Cardinality(G.edges) > 2 * PortsPerMiddleBlockUp

----------------------------------------------------------------------------
(* The plane check of connect_to_plane_switches *)

\* connect_to_plane_switches has been called on its own, on a Fabric with
\* every count >= 1, and has passed or failed its check
PlaneCallChecked ==
    /\ Constructed
    /\ ValidParams
    /\ pc \in {"fb_plane", "fb_returned", "ValueError", "IndexError"}
    /\ "plane_arg" \in DOMAIN loc

\* planes outside 0 .. nr_of_planes - 1 fail with the configuration error
\* and add no edge
PlaneOutsideRejected ==
    (PlaneCallChecked /\ (loc.plane_arg < 0 \/ loc.plane_arg >= self.nr_of_planes))
        => (pc = "ValueError" /\ G.edges = {})

\* planes in 0 .. nr_of_planes - 1 do not fail
PlaneInsideAccepted ==
    (PlaneCallChecked /\ loc.plane_arg >= 0 /\ loc.plane_arg < self.nr_of_planes)
        => pc \in {"fb_plane", "fb_returned"}

\* inside gen_graph the plane passed is always in 0 .. nr_of_planes - 1
PlaneInRangeInGenGraph ==
    (pc \in {"fb_fabric_i", "fb_edge_i", "fb_plane"} /\ "plane_arg" \notin DOMAIN loc)
        => (loc.plane >= 0 /\ loc.plane < self.nr_of_planes)

(* C21: in Fabric, connect_to_plane_switches fails with the configuration
   error, adding no edge, for every plane index outside [0, nr_of_planes),
   plane = nr_of_planes and every negative plane included, and does not fail
   for any plane in [0, nr_of_planes).  The code accepts plane =
   nr_of_planes. *)
C21_PlaneIndexChecked ==
    /\ PlaneOutsideRejected
    /\ PlaneInsideAccepted

----------------------------------------------------------------------------
(* Layering *)

\* the layers identifier x lies in
LayersOf(x) == {k \in 1 .. NrLayers : x \in Layer(k)}

\* u and v are in adjacent layers of the layer order
AdjacentLayers(u, v) ==
    \E k \in LayersOf(u), m \in LayersOf(v) : k = m + 1 \/ m = k + 1

\* u and v are in the same layer
SameLayer(u, v) == LayersOf(u) \cap LayersOf(v) # {}

\* u and v are two switches of one spine block or of one middle block of
\* Jupiter
JupiterMeshPair(u, v) ==
    /\ self.kind = "Jupiter"
    /\ \/ u \in Layer(3) /\ v \in Layer(3) /\ SpineBlockOf(u) = SpineBlockOf(v)
       \/ u \in Layer(2) /\ v \in Layer(2) /\ MiddleBlockOf(u) = MiddleBlockOf(v)

(* C23: in every generated graph each edge joins two switches of adjacent
   layers of the topology's layer order, except the mesh edges of Jupiter,
   which join two switches of the same spine block or of the same middle
   block; no edge joins a ToR switch to a switch above the second layer, and
   in FatTree, Fabric and Jupiter_bl no edge joins two switches of the same
   layer. *)
C23_EdgesJoinAdjacentLayers ==
    (Constructed /\ Done) =>
        \A e \in G.edges :
            /\ AdjacentLayers(e[1], e[2]) \/ JupiterMeshPair(e[1], e[2])
            /\ e[1] \in Layer(1) => e[2] \in Layer(2)
            /\ self.kind # "Jupiter" => ~SameLayer(e[1], e[2])
            /\ SameLayer(e[1], e[2]) => JupiterMeshPair(e[1], e[2])

C23_Witness ==
    /\ Done
    /\ self.kind = "Jupiter"
    /\ \E e \in G.edges : e[1] \in Layer(3) /\ e[2] \in Layer(3)
    /\ \E e \in G.edges : e[1] \in Layer(2) /\ e[2] \in Layer(2)
    /\ \E e \in G.edges : e[1] \in Layer(1) /\ e[2] \in Layer(2)
    /\ \E e \in G.edges : e[1] \in Layer(3) /\ e[2] \in Layer(2)

----------------------------------------------------------------------------
(* Connectivity *)

\* the nodes one edge away from a node of S
Successors(S) == {e[2] : e \in {d \in G.edges : d[1] \in S}}

\* the nodes reachable from S along edges
RECURSIVE Reach(_)
Reach(S) ==
    LET N == S \cup Successors(S)
    IN  IF N = S THEN S ELSE Reach(N)

(* C25: for every valid parameter set with all counts >= 1 the generated
   graph is connected, every switch being reachable from every ToR switch,
   and no node has degree 0.  The code leaves spine nodes unlinked when there
   are more spine blocks than uplinks. *)
C25_GraphConnected ==
    (Constructed /\ Done /\ ValidParams) =>
        /\ \A t \in Layer(1) : Reach({t}) = G.nodes
        /\ \A n \in G.nodes : AllNbrs(n) # {}

====
